---- MODULE Spec2Model ----
(***************************************************************************)
(* A model of pydpkg (src/pydpkg/__init__.py): the Debian version          *)
(* comparison functions of class Dpkg, and the lazily built control        *)
(* message of a Dpkg object.                                               *)
(*                                                                         *)
(* A Python str is a sequence of one-character strings; a Python int is    *)
(* an integer; the list listify returns is a sequence whose odd places     *)
(* hold strings and whose even places hold ints.                           *)
(***************************************************************************)
EXTENDS Integers, Sequences, FiniteSets, TLC

(***************************************************************************)
(* Bounds of the model.                                                    *)
(***************************************************************************)
\* longest version string handed to compare_versions, in a pair
MaxVerLen == 3
\* most characters in the three version strings of a triple (sorting)
MaxSortTotal == 5
\* longest string handed to listify and to get_epoch
MaxTokLen == 5
\* longest string handed to dstringcmp
MaxLexLen == 3
\* most calls of _process_dpkg_file on one Dpkg object
MaxProcess == 3

(***************************************************************************)
(* Characters: str.isdigit, str.isalpha and ord over the ASCII characters  *)
(* the model uses.                                                         *)
(***************************************************************************)
Digits == {"0", "1", "2", "3", "4", "5", "6", "7", "8", "9"}
Letters == {"A", "Z", "a", "b", "c", "r", "z"}

isdigit(c) == c \in Digits

isalpha(c) == c \in Letters

ord(c) ==
    CASE c = "+" -> 43 [] c = "-" -> 45 [] c = "." -> 46
      [] c = "0" -> 48 [] c = "1" -> 49 [] c = "2" -> 50 [] c = "3" -> 51
      [] c = "4" -> 52 [] c = "5" -> 53 [] c = "6" -> 54 [] c = "7" -> 55
      [] c = "8" -> 56 [] c = "9" -> 57
      [] c = ":" -> 58
      [] c = "A" -> 65 [] c = "Z" -> 90
      [] c = "a" -> 97 [] c = "b" -> 98 [] c = "c" -> 99 [] c = "r" -> 114
      [] c = "z" -> 122
      [] c = "~" -> 126

\* the strings over S of length at most n
Strs(S, n) == UNION {[1..m -> S] : m \in 0..n}

\* s[i:] and s[:i-1] with 1-based i
From(s, i) == SubSeq(s, i, Len(s))
Upto(s, i) == SubSeq(s, 1, i)

\* int(s) of a string of ASCII digits
RECURSIVE DecVal(_)
DecVal(s) ==
    IF s = <<>> THEN 0
    ELSE 10 * DecVal(Upto(s, Len(s) - 1)) + (ord(s[Len(s)]) - 48)

AllDigits(s) == Len(s) > 0 /\ \A i \in 1..Len(s) : isdigit(s[i])

\* int(s) raises ValueError unless s is an optional sign and then digits
\* (over these characters; int also takes blanks and underscores)
IntParses(s) ==
    IF Len(s) > 0 /\ s[1] \in {"+", "-"} THEN AllDigits(Tail(s)) ELSE AllDigits(s)

IntOf(s) ==
    IF s[1] = "-" THEN 0 - DecVal(Tail(s))
    ELSE IF s[1] = "+" THEN DecVal(Tail(s))
    ELSE DecVal(s)

\* str(n) of an int n >= 0
RECURSIVE DecStr(_)
DecStr(n) ==
    LET c == <<"0", "1", "2", "3", "4", "5", "6", "7", "8", "9">>[(n % 10) + 1]
    IN IF n < 10 THEN <<c>> ELSE Append(DecStr(n \div 10), c)

(***************************************************************************)
(* Results: a returned value or a raised exception.                        *)
(***************************************************************************)
Return(v) == [exc |-> "none", val |-> v]
Raise(e) == [exc |-> e, val |-> 0]

\* the result r as the result of a call of fn
Result(fn, r) == <<fn, r>>

(***************************************************************************)
(* Dpkg.get_epoch, get_upstream, split_full_version                        *)
(***************************************************************************)
\* str.index(c): the first place of c in s, 0 when there is none (ValueError)
index(s, c) ==
    IF \E i \in 1..Len(s) : s[i] = c
    THEN CHOOSE i \in 1..Len(s) : s[i] = c /\ \A j \in 1..(i - 1) : s[j] # c
    ELSE 0

\* str.rindex(c): the last place of c in s, 0 when there is none
rindex(s, c) ==
    IF \E i \in 1..Len(s) : s[i] = c
    THEN CHOOSE i \in 1..Len(s) : s[i] = c /\ \A j \in (i + 1)..Len(s) : s[j] # c
    ELSE 0

get_epoch(version_str) ==
    LET e_index == index(version_str, ":")
        prefix == Upto(version_str, e_index - 1)
    IN IF e_index = 0 THEN Return(<<0, version_str>>)
       ELSE IF ~IntParses(prefix) THEN Raise("DpkgVersionError")
       ELSE Return(<<IntOf(prefix), From(version_str, e_index + 1)>>)

\* get_upstream with an empty default debian revision
get_upstream_empty_default(version_str) ==
    LET d_index == rindex(version_str, "-")
    IN IF d_index = 0 THEN <<version_str, <<>>>>
       ELSE <<Upto(version_str, d_index - 1), From(version_str, d_index + 1)>>

get_upstream(version_str) ==
    LET d_index == rindex(version_str, "-")
    IN IF d_index = 0 THEN <<version_str, <<"0">>>>
       ELSE <<Upto(version_str, d_index - 1), From(version_str, d_index + 1)>>

split_full_version(version_str) ==
    LET e == get_epoch(version_str)
    IN IF e.exc # "none" THEN e
       ELSE LET u == get_upstream(e.val[2])
            IN Return(<<e.val[1], u[1], u[2]>>)

(***************************************************************************)
(* Dpkg.get_alphas, get_digits, listify                                    *)
(***************************************************************************)
\* the first place of s at or after i that holds a digit (or not), else 0
RECURSIVE FirstWhere(_, _, _)
FirstWhere(s, i, digit) ==
    IF i > Len(s) THEN 0
    ELSE IF isdigit(s[i]) = digit THEN i
    ELSE FirstWhere(s, i + 1, digit)

\* get_alphas with its slice of the remains off by one
get_alphas_off_by_one(revision_str) ==
    LET i == FirstWhere(revision_str, 1, TRUE)
    IN IF i = 0 THEN <<revision_str, <<>>>>
       ELSE IF i = 1 THEN <<<<>>, revision_str>>
       ELSE <<Upto(revision_str, i - 1), From(revision_str, i + 1)>>

get_alphas(revision_str) ==
    LET i == FirstWhere(revision_str, 1, TRUE)
    IN IF i = 0 THEN <<revision_str, <<>>>>
       ELSE IF i = 1 THEN <<<<>>, revision_str>>
       ELSE <<Upto(revision_str, i - 1), From(revision_str, i)>>

get_digits(revision_str) ==
    LET i == FirstWhere(revision_str, 1, FALSE)
    IN IF revision_str = <<>> THEN <<0, <<>>>>
       ELSE IF i = 0 THEN <<DecVal(revision_str), <<>>>>
       ELSE IF i = 1 THEN <<0, revision_str>>
       ELSE <<DecVal(Upto(revision_str, i - 1)), From(revision_str, i)>>

RECURSIVE listify(_)
listify(revision_str) ==
    IF revision_str = <<>> THEN <<>>
    ELSE LET a == get_alphas(revision_str)
             d == get_digits(a[2])
         IN <<a[1], d[1]>> \o listify(d[2])

(***************************************************************************)
(* Dpkg.dstringcmp                                                         *)
(***************************************************************************)
\* dstringcmp without the rule that letters sort before non-letters
RECURSIVE dstringcmp_plain_ascii(_, _, _)
dstringcmp_plain_ascii(a, b, i) ==
    IF i > Len(a)
    THEN IF b[Len(a) + 1] = "~" THEN 1 ELSE -1
    ELSE IF i > Len(b)
    THEN IF a[i] = "~" THEN -1 ELSE 1
    ELSE IF a[i] = b[i] THEN dstringcmp_plain_ascii(a, b, i + 1)
    ELSE IF a[i] = "~" THEN -1
    ELSE IF b[i] = "~" THEN 1
    ELSE IF ord(a[i]) > ord(b[i]) THEN 1
    ELSE -1

\* the loop of dstringcmp from place i on, with what follows it
RECURSIVE dstringcmp_from(_, _, _)
dstringcmp_from(a, b, i) ==
    IF i > Len(a)
    THEN \* a is shorter than b but otherwise equal
         IF b[Len(a) + 1] = "~" THEN 1 ELSE -1
    ELSE IF i > Len(b)
    THEN \* IndexError: a is longer than b but otherwise equal
         IF a[i] = "~" THEN -1 ELSE 1
    ELSE IF a[i] = b[i] THEN dstringcmp_from(a, b, i + 1)
    ELSE IF a[i] = "~" THEN -1
    ELSE IF b[i] = "~" THEN 1
    ELSE IF isalpha(a[i]) /\ ~isalpha(b[i]) THEN -1
    ELSE IF ~isalpha(a[i]) /\ isalpha(b[i]) THEN 1
    ELSE IF ord(a[i]) > ord(b[i]) THEN 1
    ELSE IF ord(a[i]) < ord(b[i]) THEN -1
    ELSE dstringcmp_from(a, b, i + 1)

\* dstringcmp whose shorter-string end forgets the tilde
RECURSIVE dstringcmp_no_tilde_end_from(_, _, _)
dstringcmp_no_tilde_end_from(a, b, i) ==
    IF i > Len(a) THEN -1
    ELSE IF i > Len(b)
    THEN IF a[i] = "~" THEN -1 ELSE 1
    ELSE IF a[i] = b[i] THEN dstringcmp_no_tilde_end_from(a, b, i + 1)
    ELSE IF a[i] = "~" THEN -1
    ELSE IF b[i] = "~" THEN 1
    ELSE IF isalpha(a[i]) /\ ~isalpha(b[i]) THEN -1
    ELSE IF ~isalpha(a[i]) /\ isalpha(b[i]) THEN 1
    ELSE IF ord(a[i]) > ord(b[i]) THEN 1
    ELSE -1

dstringcmp_no_tilde_end(a, b) ==
    IF a = b THEN 0 ELSE dstringcmp_no_tilde_end_from(a, b, 1)

dstringcmp(a, b) ==
    IF a = b THEN 0 ELSE dstringcmp_from(a, b, 1)

(***************************************************************************)
(* Dpkg.compare_revision_strings, compare_versions                         *)
(***************************************************************************)
\* compare_revision_strings with a tilde rule for the longer rev1 only
RECURSIVE compare_lists_tilde_one_sided(_, _, _)
compare_lists_tilde_one_sided(list1, list2, i) ==
    IF i > Len(list1) THEN -1
    ELSE IF i > Len(list2)
    THEN IF i % 2 = 1 /\ list1[i] # <<>> /\ list1[i][1] = "~" THEN -1 ELSE 1
    ELSE IF list1[i] = list2[i] THEN compare_lists_tilde_one_sided(list1, list2, i + 1)
    ELSE IF i % 2 = 0
    THEN IF list1[i] > list2[i] THEN 1 ELSE -1
    ELSE dstringcmp(list1[i], list2[i])

\* the loop of compare_revision_strings from place i on, with what follows
\* it; the items at an even place are the ints (listify alternates, so the
\* class check of the loop never raises)
RECURSIVE compare_lists_from(_, _, _)
compare_lists_from(list1, list2, i) ==
    IF i > Len(list1)
    THEN \* rev1 is shorter than rev2 but otherwise equal, hence lesser
         -1
    ELSE IF i > Len(list2)
    THEN \* IndexError: rev1 is longer than rev2 but otherwise equal
         1
    ELSE IF list1[i] = list2[i] THEN compare_lists_from(list1, list2, i + 1)
    ELSE IF i % 2 = 0
    THEN \* numeric comparison
         IF list1[i] > list2[i] THEN 1 ELSE -1
    ELSE dstringcmp(list1[i], list2[i])

compare_revision_strings(rev1, rev2) ==
    IF rev1 = rev2 THEN 0
    ELSE LET list1 == listify(rev1)
             list2 == listify(rev2)
         IN IF list1 = list2 THEN 0
            ELSE compare_lists_from(list1, list2, 1)

compare_versions(ver1, ver2) ==
    IF ver1 = ver2 THEN Return(0)
    ELSE LET s1 == split_full_version(ver1)
             s2 == split_full_version(ver2)
         IN IF s1.exc # "none" THEN s1
            ELSE IF s2.exc # "none" THEN s2
            ELSE IF s1.val[1] < s2.val[1] THEN Return(-1)
            ELSE IF s1.val[1] > s2.val[1] THEN Return(1)
            ELSE LET upstr_res == compare_revision_strings(s1.val[2], s2.val[2])
                     debian_res == compare_revision_strings(s1.val[3], s2.val[3])
                 IN IF upstr_res # 0 THEN Return(upstr_res)
                    ELSE IF debian_res # 0 THEN Return(debian_res)
                    ELSE Return(0)

(***************************************************************************)
(* State.                                                                  *)
(*   inp, call, ret  a call of a method: its first argument (of a static   *)
(*                   method), the call made, what it returned or raised    *)
(*                   (after the method's name)                             *)
(*   self            the Dpkg object: the archive its filename names,      *)
(*                   ignore_missing, _message, _headers, _control_str      *)
(*   pc, frame       where the object's running access stands: "idle", or  *)
(*                   "pdb" inside pdb.set_trace(), with the access and the *)
(*                   message being validated                               *)
(*   nprocess        how many times _process_dpkg_file has been called     *)
(*   built           whether a call of _process_dpkg_file has returned     *)
(*   ran             whether the last access called _process_dpkg_file     *)
(***************************************************************************)
VARIABLES inp, call, ret, self, pc, frame, nprocess, built, ran

call_vars == <<inp, call, ret>>
object_vars == <<self, pc, frame, nprocess, built, ran>>
vars == <<inp, call, ret, self, pc, frame, nprocess, built, ran>>

NoFrame == [fn |-> "none", arg |-> "", message |-> [id |-> 0, hdrs |-> <<>>], req |-> 0]

\* the static methods need no object
NoObject ==
    /\ self = [archive |-> "none"]
    /\ pc = "idle"
    /\ frame = NoFrame
    /\ nprocess = 0
    /\ built = FALSE
    /\ ran = FALSE

NoCall == <<"none">>

\* the characters the arguments are drawn from
VerChars == {"a", "1", "-", "~", ":"}
SortChars == {"a", "0", "-", "~"}
TokChars == {"a", "0", "1", ".", "-", "~", "+", ":"}
LexChars == {"A", "a", "+", ".", "~"}

(***************************************************************************)
(* compare_versions on a pair of version strings, and on a version string  *)
(* and the same string with its default epoch or revision written out.     *)
(***************************************************************************)
InitVersions ==
    /\ NoObject
    /\ inp \in Strs(VerChars, MaxVerLen)
    /\ call = NoCall
    /\ ret = Result("none", Return(0))

CallCompareVersions ==
    /\ call = NoCall
    /\ \E ver2 \in Strs(VerChars, MaxVerLen) :
          /\ call' = <<"compare_versions", inp, ver2>>
          /\ ret' = Result("compare_versions", compare_versions(inp, ver2))
    /\ UNCHANGED <<inp, object_vars>>

CallCompareDefaults ==
    /\ call = NoCall
    /\ \E explicit \in {<<"0", ":">> \o inp, inp \o <<"-", "0">>}, swap \in BOOLEAN :
          LET ver1 == IF swap THEN explicit ELSE inp
              ver2 == IF swap THEN inp ELSE explicit
          IN /\ call' = <<"compare_versions", ver1, ver2>>
             /\ ret' = Result("compare_versions", compare_versions(ver1, ver2))
    /\ UNCHANGED <<inp, object_vars>>

NextVersions == CallCompareVersions \/ CallCompareDefaults

SpecVersions == InitVersions /\ [][NextVersions]_vars

(***************************************************************************)
(* compare_versions as the comparator of a sort: three version strings     *)
(* compared pairwise.                                                      *)
(***************************************************************************)
\* the version strings of a sort of at most n characters: those whose
\* epochs parse
SortVersions(n) ==
    {v \in Strs(SortChars, n) : get_epoch(v).exc = "none"}

InitSort ==
    /\ NoObject
    /\ inp \in SortVersions(MaxSortTotal)
    /\ call = NoCall
    /\ ret = Result("none", Return(0))

CallCompareThree ==
    /\ call = NoCall
    /\ \E b \in SortVersions(MaxSortTotal - Len(inp)) :
          LET ab == compare_versions(inp, b)
          IN \E c \in SortVersions(MaxSortTotal - Len(inp) - Len(b)) :
                /\ call' = <<"compare_versions", inp, b, c>>
                /\ ret' = Result("compare_versions",
                                  Return(<<ab, compare_versions(b, c),
                                           compare_versions(inp, c)>>))
    /\ UNCHANGED <<inp, object_vars>>

SpecSort == InitSort /\ [][CallCompareThree]_vars

(***************************************************************************)
(* listify and get_epoch on one string.                                    *)
(***************************************************************************)
InitTokens ==
    /\ NoObject
    /\ inp \in Strs(TokChars, MaxTokLen)
    /\ call = NoCall
    /\ ret = Result("none", Return(0))

CallListify ==
    /\ call = NoCall
    /\ call' = <<"listify", inp>>
    /\ ret' = Result("listify", Return(listify(inp)))
    /\ UNCHANGED <<inp, object_vars>>

CallGetEpoch ==
    /\ call = NoCall
    /\ call' = <<"get_epoch", inp>>
    /\ ret' = Result("get_epoch", get_epoch(inp))
    /\ UNCHANGED <<inp, object_vars>>

NextTokens == CallListify \/ CallGetEpoch

SpecTokens == InitTokens /\ [][NextTokens]_vars

(***************************************************************************)
(* dstringcmp on a pair of digit-free strings.                             *)
(***************************************************************************)
InitLex ==
    /\ NoObject
    /\ inp \in Strs(LexChars, MaxLexLen)
    /\ call = NoCall
    /\ ret = Result("none", Return(0))

CallDstringcmp ==
    /\ call = NoCall
    /\ \E b \in Strs(LexChars, MaxLexLen) :
          /\ call' = <<"dstringcmp", inp, b>>
          /\ ret' = Result("dstringcmp", Return(dstringcmp(inp, b)))
    /\ UNCHANGED <<inp, object_vars>>

SpecLex == InitLex /\ [][CallDstringcmp]_vars

(***************************************************************************)
(* The Dpkg object.  A header is <<name, value>>; a control message (an    *)
(* email Message) is its headers in file order, with the number of the     *)
(* _process_dpkg_file call that made it as its identity; id 0 is None.     *)
(***************************************************************************)
REQUIRED_HEADERS == <<"package", "version", "architecture">>

\* the spellings of the header names in a control file
Spellings ==
    <<[lower |-> "package", title |-> "Package", upper |-> "PACKAGE"],
      [lower |-> "version", title |-> "Version", upper |-> "VERSION"],
      [lower |-> "architecture", title |-> "Architecture", upper |-> "ARCHITECTURE"]>>

HeaderValues == <<"foo", "1.0-1", "amd64">>

HeaderNames == UNION {{Spellings[i].lower, Spellings[i].title, Spellings[i].upper} : i \in 1..3}

\* str.lower on the header names
lower(name) ==
    LET i == CHOOSE k \in 1..3 : name \in {Spellings[k].lower, Spellings[k].title, Spellings[k].upper}
    IN Spellings[i].lower

\* the control blocks: each required header left out or written in one of
\* its spellings
RECURSIVE BlockFrom(_, _)
BlockFrom(form, i) ==
    IF i > 3 THEN <<>>
    ELSE (IF form[i] = "absent" THEN <<>> ELSE <<<<Spellings[i][form[i]], HeaderValues[i]>>>>)
         \o BlockFrom(form, i + 1)

ControlBlocks ==
    {BlockFrom(form, 1) : form \in [1..3 -> {"absent", "lower", "title", "upper"}]}

\* a tar member: its path (a sequence of components) and its content
Member(path, content) == [path |-> path, content |-> content]

\* the dpkg files: an ar archive with or without control.tar.gz, whose tar
\* holds a control file (as ./control or control) or none
Archives ==
    {[tgz |-> FALSE, members |-> <<>>],
     [tgz |-> TRUE, members |-> <<Member(<<".", "md5sums">>, <<>>)>>]}
    \cup {[tgz |-> TRUE, members |-> <<Member(<<".", "md5sums">>, <<>>), Member(path, block)>>] :
            path \in {<<".", "control">>, <<"control">>}, block \in ControlBlocks}

\* os.path.basename
basename(path) == path[Len(path)]

NoneMessage == [id |-> 0, hdrs |-> <<>>]
NoneHeaders == [none |-> TRUE, items |-> <<>>]
NoneStr == [none |-> TRUE, text |-> <<>>]

\* bool(x) of the cached values: None is false, a Message of no headers is
\* false (Message.__len__), an empty dict and an empty str are false
bool_message(m) == m.id # 0 /\ Len(m.hdrs) > 0
bool_headers(h) == ~h.none /\ Len(h.items) > 0
bool_str(t) == ~t.none /\ Len(t.text) > 0

\* Message.keys()
keys(m) == [i \in 1..Len(m.hdrs) |-> m.hdrs[i][1]]

\* d[key] = value on a dict, which keeps its keys in the order they came
dict_set(items, key, value) ==
    IF \E i \in 1..Len(items) : items[i][1] = key
    THEN [i \in 1..Len(items) |-> IF items[i][1] = key THEN <<key, value>> ELSE items[i]]
    ELSE Append(items, <<key, value>>)

RECURSIVE dict_of(_, _)
dict_of(pairs, items) ==
    IF pairs = <<>> THEN items
    ELSE dict_of(Tail(pairs), dict_set(items, pairs[1][1], pairs[1][2]))

\* dict(Message.items())
dict_items(m) == [none |-> FALSE, items |-> dict_of(m.hdrs, <<>>)]

\* Message.as_string(): the header lines and an empty line
as_string(m) == [none |-> FALSE, text |-> m.hdrs \o <<<<"", "">>>>]

\* dict.get(key, default)
dict_get(d, key, default) ==
    IF \E i \in 1..Len(d.items) : d.items[i][1] = key
    THEN d.items[CHOOSE i \in 1..Len(d.items) : d.items[i][1] = key][2]
    ELSE default

\* _force_encoding leaves text as it is
_force_encoding(obj) == obj

\* the place in REQUIRED_HEADERS, at or after i, of the first header that is
\* not among the lower-cased keys of the message; 0 when there is none
RECURSIVE NextMissing(_, _)
NextMissing(message, i) ==
    IF i > Len(REQUIRED_HEADERS) THEN 0
    ELSE IF REQUIRED_HEADERS[i] \notin {lower(keys(message)[k]) : k \in 1..Len(message.hdrs)}
    THEN i
    ELSE NextMissing(message, i + 1)

\* _process_dpkg_file up to its loop over REQUIRED_HEADERS: an exception, or
\* the message parsed from the control file
read_control(archive, id) ==
    LET tar_members == [i \in 1..Len(archive.members) |-> basename(archive.members[i].path)]
        control_idx == CHOOSE i \in 1..Len(tar_members) :
                           /\ tar_members[i] = "control"
                           /\ \A j \in 1..(i - 1) : tar_members[j] # "control"
    IN IF ~archive.tgz THEN Raise("DpkgMissingControlGzipFile")
       ELSE IF \A i \in 1..Len(tar_members) : tar_members[i] # "control"
       THEN Raise("DpkgMissingControlFile")
       ELSE Return([id |-> id, hdrs |-> archive.members[control_idx].content])

\* the end of _process_dpkg_file: every header coerced, the message returned
coerced(message) ==
    [message EXCEPT !.hdrs = [i \in 1..Len(message.hdrs) |->
                                <<message.hdrs[i][1], _force_encoding(message.hdrs[i][2])>>]]

\* whether the access has to call _process_dpkg_file: the value it caches is
\* false, and so is self._message
NeedsProcess(fn) ==
    /\ ~bool_message(self._message)
    /\ fn = "control_str" => ~bool_str(self._control_str)
    /\ fn \in {"headers", "get_header"} => ~bool_headers(self._headers)

\* the access fn(arg) completes with self.message being message
Finish(fn, arg, message) ==
    LET control_str == IF bool_str(self._control_str) THEN self._control_str
                       ELSE as_string(message)
        headers == IF bool_headers(self._headers) THEN self._headers
                   ELSE dict_items(message)
    IN /\ pc' = "idle"
       /\ frame' = NoFrame
       /\ CASE fn = "message" ->
                 /\ self' = [self EXCEPT !._message = message]
                 /\ ret' = Result(fn, Return(message))
            [] fn = "control_str" ->
                 /\ self' = IF bool_str(self._control_str) THEN self
                            ELSE [self EXCEPT !._message = message, !._control_str = control_str]
                 /\ ret' = Result(fn, Return(control_str))
            [] fn \in {"headers", "get_header"} ->
                 /\ self' = IF bool_headers(self._headers) THEN self
                            ELSE [self EXCEPT !._message = message, !._headers = headers]
                 /\ ret' = IF fn = "headers" THEN Result(fn, Return(headers))
                           ELSE Result(fn, Return(dict_get(headers, lower(arg), "")))

\* the loop over REQUIRED_HEADERS from place i on: pdb.set_trace() at the
\* first header that is missing, else the message is returned
Validate(fn, arg, message, i) ==
    LET req == NextMissing(message, i)
    IN IF req # 0
       THEN /\ pc' = "pdb"
            /\ frame' = [fn |-> fn, arg |-> arg, message |-> message, req |-> req]
            /\ ret' = Result(fn, [exc |-> "pending", val |-> 0])
            /\ UNCHANGED <<self, built>>
       ELSE /\ Finish(fn, arg, coerced(message))
            /\ built' = TRUE

\* an access of message, control_str, headers or get_header(arg)
Access(fn, arg) ==
    /\ call' = <<fn, arg>>
    /\ UNCHANGED inp
    /\ IF ~NeedsProcess(fn)
       THEN /\ Finish(fn, arg, self._message)
            /\ ran' = FALSE
            /\ UNCHANGED <<nprocess, built>>
       ELSE /\ nprocess < MaxProcess
            /\ nprocess' = nprocess + 1
            /\ ran' = TRUE
            /\ LET read == read_control(self.archive, nprocess + 1)
               IN IF read.exc # "none"
                  THEN /\ ret' = Result(fn, read)
                       /\ UNCHANGED <<self, pc, frame, built>>
                  ELSE Validate(fn, arg, read.val, 1)

AccessMessage ==
    /\ pc = "idle"
    /\ Access("message", "")

AccessControlStr ==
    /\ pc = "idle"
    /\ Access("control_str", "")

AccessHeaders ==
    /\ pc = "idle"
    /\ Access("headers", "")

GetHeader ==
    /\ pc = "idle"
    /\ \E header \in HeaderNames : Access("get_header", header)

\* the debugger's user continues: the missing header is passed over when
\* ignore_missing is set, else DpkgMissingRequiredHeaderError is raised
PdbContinue ==
    /\ pc = "pdb"
    /\ UNCHANGED <<inp, call, nprocess, ran>>
    /\ IF self.ignore_missing
       THEN Validate(frame.fn, frame.arg, frame.message, frame.req + 1)
       ELSE /\ ret' = Result(frame.fn, Raise("DpkgMissingRequiredHeaderError"))
            /\ pc' = "idle"
            /\ frame' = NoFrame
            /\ UNCHANGED <<self, built>>

\* the debugger's user quits: BdbQuit is raised
PdbQuit ==
    /\ pc = "pdb"
    /\ ret' = Result(frame.fn, Raise("BdbQuit"))
    /\ pc' = "idle"
    /\ frame' = NoFrame
    /\ UNCHANGED <<inp, call, self, nprocess, built, ran>>

\* after __init__
Init ==
    /\ inp = <<>>
    /\ call = NoCall
    /\ ret = Result("none", Return(0))
    /\ \E archive \in Archives, ignore_missing \in BOOLEAN :
          self = [archive |-> archive, ignore_missing |-> ignore_missing,
                  _message |-> NoneMessage, _headers |-> NoneHeaders,
                  _control_str |-> NoneStr]
    /\ pc = "idle"
    /\ frame = NoFrame
    /\ nprocess = 0
    /\ built = FALSE
    /\ ran = FALSE

Next ==
    \/ AccessMessage
    \/ AccessControlStr
    \/ AccessHeaders
    \/ GetHeader
    \/ PdbContinue
    \/ PdbQuit

Spec == Init /\ [][Next]_vars

(***************************************************************************)
(* Properties of the version comparison.                                   *)
(***************************************************************************)
\* the call returned v; the call raised e
Returned(v) == ret[2].exc = "none" /\ ret[2].val = v
Raised(e) == ret[2].exc = e

EpochParses(v) == get_epoch(v).exc = "none"

ComparedPair == call[1] = "compare_versions" /\ Len(call) = 3
ComparedTriple == call[1] = "compare_versions" /\ Len(call) = 4

\* C1: compare_versions is antisymmetric: for version strings a, b whose
\* epochs parse, compare_versions(a, b) returns one of -1, 0, 1 and it is
\* the negation of compare_versions(b, a).
C1_Antisymmetric ==
    (ComparedPair /\ EpochParses(call[2]) /\ EpochParses(call[3])) =>
        LET back == compare_versions(call[3], call[2])
        IN /\ ret[2].exc = "none" /\ back.exc = "none"
           /\ ret[2].val \in {-1, 0, 1}
           /\ ret[2].val = 0 - back.val

\* C1 witness: "1~" against "1", which compare unequal
C1_Witness ==
    /\ call = <<"compare_versions", <<"1", "~">>, <<"1">>>>
    /\ Returned(1)

\* C2: compare_versions is transitive: for version strings a, b, c whose
\* epochs parse, a <= b and b <= c give a <= c, and a = b and b = c give
\* a = c.
C2_Transitive ==
    (ComparedTriple /\ \A i \in 2..4 : EpochParses(call[i])) =>
        /\ \A i \in 1..3 : ret[2].val[i].exc = "none"
        /\ (ret[2].val[1].val <= 0 /\ ret[2].val[2].val <= 0) => ret[2].val[3].val <= 0
        /\ (ret[2].val[1].val = 0 /\ ret[2].val[2].val = 0) => ret[2].val[3].val = 0

\* C2 witness: "a~" sorts before "a", which compares equal to "a0"
C2_Witness ==
    /\ call = <<"compare_versions", <<"a", "~">>, <<"a">>, <<"a", "0">>>>
    /\ Returned(<<Return(-1), Return(0), Return(-1)>>)

\* long is short followed by a suffix that starts with a tilde and holds
\* no colon and no hyphen
TildeExtends(long, short) ==
    /\ Len(long) > Len(short)
    /\ Upto(long, Len(short)) = short
    /\ long[Len(short) + 1] = "~"
    /\ \A i \in (Len(short) + 1)..Len(long) : long[i] \notin {":", "-"}

\* C3: a tilde sorts before the end of a revision: for a revision r (whose
\* epoch parses) and a suffix s that starts with a tilde and holds no colon
\* and no hyphen, compare_versions(r + s, r) = -1 and
\* compare_versions(r, r + s) = 1.
C3_TildeBeforeEnd ==
    (ComparedPair /\ EpochParses(call[2]) /\ EpochParses(call[3])) =>
        /\ TildeExtends(call[2], call[3]) => Returned(-1)
        /\ TildeExtends(call[3], call[2]) => Returned(1)

HasChar(s, c) == \E i \in 1..Len(s) : s[i] = c

\* explicit is v with a zero epoch put before it (v has no colon), or with
\* a zero debian revision put after it (v has no hyphen)
ZeroEpochOf(explicit, v) == ~HasChar(v, ":") /\ explicit = <<"0", ":">> \o v
ZeroRevisionOf(explicit, v) == ~HasChar(v, "-") /\ explicit = v \o <<"-", "0">>

\* C7 as stated: for every v with no colon, "0:" + v compares equal to v,
\* and for every v with no hyphen, v compares equal to v + "-0", in both
\* argument orders.
C7_DefaultsEqual ==
    ComparedPair =>
        ((\/ ZeroEpochOf(call[2], call[3]) \/ ZeroEpochOf(call[3], call[2])
          \/ ZeroRevisionOf(call[2], call[3]) \/ ZeroRevisionOf(call[3], call[2]))
            => Returned(0))

\* C7 amended: the same, for the strings v whose epoch parses (the text
\* before a colon of v, when v has one, is an integer).
C7_DefaultsEqualWhenEpochParses ==
    (ComparedPair /\ EpochParses(call[2]) /\ EpochParses(call[3])) =>
        ((\/ ZeroEpochOf(call[2], call[3]) \/ ZeroEpochOf(call[3], call[2])
          \/ ZeroRevisionOf(call[2], call[3]) \/ ZeroRevisionOf(call[3], call[2]))
            => Returned(0))

\* C7 witness: "1:a" against "1:a-0"
C7_Witness ==
    /\ call = <<"compare_versions", <<"1", ":", "a">>, <<"1", ":", "a", "-", "0">>>>
    /\ Returned(0)

(***************************************************************************)
(* Properties of the tokenizer and of get_epoch.                           *)
(***************************************************************************)
\* the tokens of a list joined: strings as they are, ints in decimal
RECURSIVE JoinTokens(_)
JoinTokens(list) ==
    IF list = <<>> THEN <<>>
    ELSE list[1] \o DecStr(list[2]) \o JoinTokens(SubSeq(list, 3, Len(list)))

\* every run of digits of s is the decimal text of a number: no run longer
\* than one digit starts with a zero
NoLeadingZeros(s) ==
    \A i \in 1..Len(s) :
        (s[i] = "0" /\ (i = 1 \/ ~isdigit(s[i - 1])))
            => (i = Len(s) \/ ~isdigit(s[i + 1]))

EndsInDigit(s) == Len(s) > 0 /\ isdigit(s[Len(s)])

\* C8 as stated: for every revision string r with no colon, joining the
\* tokens of listify(r) gives back r.
C8_Lossless ==
    (call[1] = "listify" /\ ~HasChar(call[2], ":")) =>
        JoinTokens(ret[2].val) = call[2]

\* C8 amended: joining the tokens of listify(r) gives back r for every r
\* that is empty or ends in a digit, and whose runs of digits have no
\* leading zeros.
C8_LosslessWhenCanonical ==
    (/\ call[1] = "listify" /\ ~HasChar(call[2], ":")
     /\ (call[2] = <<>> \/ EndsInDigit(call[2]))
     /\ NoLeadingZeros(call[2])) =>
        JoinTokens(ret[2].val) = call[2]

\* C8 witness: "1.0-1"
C8_Witness ==
    /\ call = <<"listify", <<"1", ".", "0", "-", "1">>>>
    /\ Returned(<<<<>>, 1, <<".">>, 0, <<"-">>, 1>>)

\* C6: get_epoch returns (0, v) when v has no colon, (n, the rest after the
\* first colon) when the text before the first colon is a non-negative
\* integer n (digits only), and raises DpkgVersionError in every other
\* case.
C6_EpochContract ==
    call[1] = "get_epoch" =>
        LET v == call[2]
            e_index == index(v, ":")
            prefix == Upto(v, e_index - 1)
        IN IF e_index = 0 THEN Returned(<<0, v>>)
           ELSE IF AllDigits(prefix)
                THEN Returned(<<DecVal(prefix), From(v, e_index + 1)>>)
                ELSE Raised("DpkgVersionError")

(***************************************************************************)
(* Properties of dstringcmp.                                               *)
(***************************************************************************)
\* the Debian lexical rule, stated on the first place where a and b differ
DebianLexical(a, b) ==
    LET n == IF Len(a) < Len(b) THEN Len(a) ELSE Len(b)
        differ == {i \in 1..n : a[i] # b[i]}
    IN IF a = b THEN 0
       ELSE IF differ # {}
       THEN LET i == CHOOSE k \in differ : \A j \in differ : k <= j
            IN CASE a[i] = "~" -> -1
                 [] a[i] # "~" /\ b[i] = "~" -> 1
                 [] "~" \notin {a[i], b[i]} /\ isalpha(a[i]) /\ ~isalpha(b[i]) -> -1
                 [] "~" \notin {a[i], b[i]} /\ ~isalpha(a[i]) /\ isalpha(b[i]) -> 1
                 [] OTHER -> IF ord(a[i]) < ord(b[i]) THEN -1 ELSE 1
       ELSE IF Len(a) < Len(b)
       THEN (IF b[n + 1] = "~" THEN 1 ELSE -1)
       ELSE (IF a[n + 1] = "~" THEN -1 ELSE 1)

\* C9: dstringcmp agrees with the Debian lexical rule on every pair of
\* digit-free strings, the empty string included.
C9_DebianLexicalRule ==
    call[1] = "dstringcmp" => Returned(DebianLexical(call[2], call[3]))

\* C9 witness: the empty string against a tilde, which sorts before the end
C9_Witness ==
    /\ call = <<"dstringcmp", <<>>, <<"~">>>>
    /\ Returned(1)

(***************************************************************************)
(* Properties of the Dpkg object.                                          *)
(***************************************************************************)
\* the headers of the control file of the object's archive
ControlBlock == read_control(self.archive, 0).val.hdrs

Accessed == call[1] \in {"message", "control_str", "headers", "get_header"}

\* C4: header lookup is case-insensitive: a get_header that returns gives
\* the value of the header of the control block whose name matches the
\* asked name in any letter case, and the empty string only when the
\* control block has no such header.
C4_CaseInsensitiveLookup ==
    (pc = "idle" /\ call[1] = "get_header" /\ ret[2].exc = "none") =>
        LET same == {i \in 1..Len(ControlBlock) :
                        lower(ControlBlock[i][1]) = lower(call[2])}
        IN IF same = {} THEN ret[2].val = ""
           ELSE \E i \in same : ret[2].val = ControlBlock[i][2]

\* C5: when the control block lacks a required header, an access that runs
\* the extraction ends directly, in no waiting or interactive state on the
\* way: with DpkgMissingRequiredHeaderError unless ignore_missing is set,
\* and with success when it is set.
C5_MissingHeaderEndsDirectly ==
    (/\ Accessed /\ ran
     /\ read_control(self.archive, 0).exc = "none"
     /\ NextMissing([id |-> 0, hdrs |-> ControlBlock], 1) # 0) =>
        /\ pc = "idle"
        /\ ret[2].exc = IF self.ignore_missing THEN "none"
                     ELSE "DpkgMissingRequiredHeaderError"

\* C10: the control message is built once: after a call of
\* _process_dpkg_file has returned, no access calls it again and the cached
\* message stays the same object.
C10_BuiltOnce ==
    [][built => (nprocess' = nprocess /\ self'._message = self._message)]_vars

====
